---- MODULE Spec2Model ----
(***************************************************************************)
(* A model of claude-chats-delete: the bubbletea list controller           *)
(* (model.Update), the asynchronous deletion command                       *)
(* (model.deleteSelectedChats), the related-file resolver                  *)
(* (findRelatedFiles), the manifest updater (updateSessionsIndex) and the  *)
(* scanner (findAllChats), over an abstract ~/.claude tree.                *)
(*                                                                         *)
(* The event loop handles one message at a time; a command returned by     *)
(* Update runs in its own goroutine, so the steps of a deletion batch      *)
(* interleave with the messages the controller handles.                    *)
(***************************************************************************)
EXTENDS Integers, Sequences, FiniteSets, TLC

\* ------------------------------------------------------------------ bounds
NumUUID == 2        \* session identifiers 1..NumUUID
NumProj == 2        \* project directories 1..NumProj
MaxDispatch == 2    \* deletion commands dispatched in one run
MaxTimer == 2       \* cap of the copyTimer counter

\* ------------------------------------------------------- program constants
ChromeHeight == 8   \* visibleHeight := m.height - 8
MinPage == 10       \* if visibleHeight < 1 { visibleHeight = 10 }
ScanWindow == 100   \* getChatTitle: if lineNum > 100 { break }

UUIDs == 1..NumUUID
AgentFiles == {-1}  \* base names that start with "agent-"
FileIds == UUIDs \cup AgentFiles
Projects == 1..NumProj
Agents == {1}
Heights == {0, 9}   \* terminal heights a WindowSizeMsg may carry
NoUUID == 0
BatchIds == {1, 2}  \* the goroutines that can run a deletion command at once

\* The base name of a session file, as a sequence of characters. Identifier
\* 2k is named by the name of 2k-1 followed by one more character, so one
\* name can be a prefix of another (base names of *.jsonl files are not
\* validated). Character 0 stands for the reserved prefix "agent-".
Name(u) ==
    IF u < 0 THEN <<0, -u>>
    ELSE IF u % 2 = 1 THEN <<u>> ELSE <<u - 1, u>>
AgentPrefix == <<0>>

\* strings.HasPrefix / the glob pattern <prefix>*
HasPrefix(s, prefix) ==
    /\ Len(prefix) <= Len(s)
    /\ \A i \in 1..Len(prefix) : s[i] = prefix[i]

\* ------------------------------------------------------------------- paths
\* A path is <<kind, a, b>>:
\*   <<"jsonl", p, u>>     projects/p/<u>.jsonl
\*   <<"chatdir", p, u>>   projects/p/<u>/
\*   <<"toolres", p, u>>   projects/p/<u>/tool-results
\*   <<"plan", s, 0>>      plans/<s>.md
\*   <<"debug", u, 0>>     debug/<u>.txt
\*   <<"todo", u, 0>>      todos/<u>-agent-<u>.json
\*   <<"senv", u, 0>>      session-env/<u>/
\*   <<"fhist", u, 0>>     file-history/<u>/
\*   <<"memlocal", a, 0>>  agents/<a>/memory-local.md
\*   <<"memproj", a, 0>>   agents/<a>/memory-project.md
\*   <<"memuser", a, 0>>   agents/<a>/memory-user.md
Jsonl(p, u) == <<"jsonl", p, u>>
ChatDir(p, u) == <<"chatdir", p, u>>
ToolRes(p, u) == <<"toolres", p, u>>
Plan(s) == <<"plan", s, 0>>
Debug(u) == <<"debug", u, 0>>
Todo(u) == <<"todo", u, 0>>
SEnv(u) == <<"senv", u, 0>>
FHist(u) == <<"fhist", u, 0>>
MemLocal(a) == <<"memlocal", a, 0>>
MemProj(a) == <<"memproj", a, 0>>
MemUser(a) == <<"memuser", a, 0>>

\* The paths below a path (a directory's content).
Children(path) ==
    IF path[1] = "chatdir" THEN {ToolRes(path[2], path[3])} ELSE {}

VARIABLES
    fs,             \* the set of paths that exist
    content,        \* [<<p, u>> -> [mtime, lines]]: what a session file holds
    index,          \* [Projects -> manifest]: sessions-index.json of each project
    chats,          \* m.chats: the list of UUIDs shown
    cursor,         \* m.cursor
    selected,       \* m.selected: the set of selected list indices (0-based)
    confirmDelete,  \* m.confirmDelete
    deleting,       \* m.deleting
    deleted,        \* m.deleted
    error,          \* m.error
    height,         \* m.height
    scrollOffset,   \* m.scrollOffset
    copiedMsg,      \* m.copiedMsg: the UUID copied, or NoUUID
    deleteTimer,    \* m.deleteTimer
    copyTimer,      \* m.copyTimer
    ticks,          \* tea.Tick messages scheduled and not yet delivered
    batches,        \* deletion commands: running, or returned and undelivered
    status,         \* "running", "quit" (tea.Quit) or "crashed" (a Go panic)
    dispatched,     \* how many deletion commands Update has returned so far
    lastMsg,        \* the message Update handled last
    config,         \* main's config: the Config in memory
    main,           \* main's position, its environment and the config file
    update          \* the binaries on disk and what downloadAndInstall returned

fsVars == <<fs, content, index>>
ctlVars == <<chats, cursor, selected, confirmDelete, deleting, deleted, error,
             height, scrollOffset, copiedMsg, deleteTimer, copyTimer>>
bootVars == <<config, main, update>>
tuiVars == <<fs, content, index, chats, cursor, selected, confirmDelete, deleting,
             deleted, error, height, scrollOffset, copiedMsg, deleteTimer,
             copyTimer, ticks, batches, status, dispatched, lastMsg>>
vars == <<fs, content, index, chats, cursor, selected, confirmDelete, deleting,
          deleted, error, height, scrollOffset, copiedMsg, deleteTimer,
          copyTimer, ticks, batches, status, dispatched, lastMsg, config, main,
          update>>

\* ------------------------------------------------------------ sequences
RECURSIVE SortedSeq(_)
\* The elements of a set of integers in increasing order (os.ReadDir and
\* filepath.Glob return names sorted).
SortedSeq(S) ==
    IF S = {} THEN <<>>
    ELSE LET m == CHOOSE x \in S : \A y \in S : x <= y
         IN <<m>> \o SortedSeq(S \ {m})

RECURSIVE Flatten(_)
Flatten(ss) == IF ss = <<>> THEN <<>> ELSE Head(ss) \o Flatten(Tail(ss))

Range(s) == {s[i] : i \in 1..Len(s)}

\* A path taken without asking whether it exists.
OptionalAlways(path, files) == <<path>>

Optional(path, files) == IF path \in files THEN <<path>> ELSE <<>>

\* ------------------------------------------------------ session records
\* A session file is a sequence of lines. A line has a form: "ok" (it
\* decodes into a JSONLMessage), "bad" (json.Unmarshal fails) or "long" (it
\* exceeds the buffer of a bufio.Scanner, whose Scan then returns false);
\* and the fields type, isMeta, content, summary, version, slug and agent.
\* 0, "" and <<>> are empty fields. content and summary are sequences of
\* tokens: "<sys>" and "</sys>" are a pair of system tags, "<" is text that
\* begins with that character, " " is white space, "w" and "s" are words.
Record ==
    [form |-> "ok", type |-> "other", isMeta |-> FALSE, content |-> <<>>,
     summary |-> <<>>, version |-> "", slug |-> 0, agent |-> 0]

\* The lines a bufio.Scanner yields: those before the first "long" one.
Scanned(lines) ==
    LET long == {i \in 1..Len(lines) : lines[i].form = "long"}
    IN IF long = {} THEN lines
       ELSE SubSeq(lines, 1, (CHOOSE i \in long : \A j \in long : i <= j) - 1)

\* Reading a file that does not exist yields no line.
Lines(files, cont, p, u) ==
    IF Jsonl(p, u) \in files THEN Scanned(cont[<<p, u>>].lines) ELSE <<>>

\* ------------------------------------------------------------- metadata
NoTitle == <<"[No title]">>
ErrorTitle == <<"[Error opening file]">>

\* strings.Index: the first position of token t in s, 0 when there is none
\* (positions count from 1).
IndexOf(s, t) ==
    IF \E i \in 1..Len(s) : s[i] = t
    THEN CHOOSE i \in 1..Len(s) : s[i] = t /\ \A j \in 1..(i - 1) : s[j] # t
    ELSE 0

RECURSIVE StripTags(_)
\* The loop of cleanSystemTags for one pair of tags: the first opening tag
\* is removed with everything up to the first closing tag after it; without
\* a closing tag everything from the opening tag on is removed.
StripTags(s) ==
    LET start == IndexOf(s, "<sys>")
        rest == SubSeq(s, start, Len(s))
        end == IndexOf(rest, "</sys>")
    IN IF start = 0 THEN s
       ELSE IF end = 0 THEN SubSeq(s, 1, start - 1)
       ELSE StripTags(SubSeq(s, 1, start - 1) \o SubSeq(rest, end + 1, Len(rest)))

\* strings.Join(strings.Fields(...), " "): no white space at either end, and
\* one piece of white space between two words.
Fields(s) ==
    SelectSeq([i \in 1..Len(s) |->
                  IF s[i] # " " THEN s[i]
                  ELSE IF i > 1 /\ s[i - 1] # " "
                          /\ \E j \in (i + 1)..Len(s) : s[j] # " "
                       THEN " " ELSE ""],
              LAMBDA t : t # "")

cleanSystemTags(cont) ==
    LET cleaned == Fields(StripTags(cont))
    IN IF cleaned = <<>> \/ Head(cleaned) \in {"<", "</sys>"} THEN <<>> ELSE cleaned

\* A line decodes, is of type user, is not meta and cleans to a title.
Qualifies(msg) ==
    msg.type = "user" /\ ~msg.isMeta /\ cleanSystemTags(msg.content) # <<>>

\* The loop of getChatTitle over the lines the scanner yields. Line 1 is
\* skipped. A line that does not decode is skipped by `continue`, before
\* the test of lineNum > 100; so the loop ends at the first line that
\* decodes and either qualifies (return) or has lineNum > 100 (break), or
\* at the end of the file. firstSummary is the first non-empty summary of a
\* summary line up to there.
TitleFrom(lines) ==
    LET decoded == {n \in 2..Len(lines) : lines[n].form = "ok"}
        stops == {n \in decoded : Qualifies(lines[n]) \/ n > ScanWindow}
        last == IF stops = {} THEN Len(lines)
                ELSE CHOOSE n \in stops : \A k \in stops : n <= k
        summaries == {n \in decoded :
                         n <= last /\ lines[n].type = "summary" /\ lines[n].summary # <<>>}
        firstSummary == IF summaries = {} THEN <<>>
                        ELSE lines[CHOOSE n \in summaries : \A k \in summaries : n <= k].summary
    IN IF stops # {} /\ Qualifies(lines[last]) THEN cleanSystemTags(lines[last].content)
       ELSE IF firstSummary # <<>> THEN firstSummary
       ELSE NoTitle

getChatTitle(files, cont, p, u) ==
    IF Jsonl(p, u) \notin files THEN ErrorTitle
    ELSE TitleFrom(Scanned(cont[<<p, u>>].lines))

getChatVersion(files, cont, p, u) ==
    LET lines == Lines(files, cont, p, u)
    IN IF Len(lines) < 2 \/ lines[2].form = "bad" THEN "" ELSE lines[2].version

RECURSIVE FirstSlug(_)
FirstSlug(lines) ==
    IF lines = <<>> THEN 0
    ELSE IF Head(lines).slug # 0 THEN Head(lines).slug
    ELSE FirstSlug(Tail(lines))

getSlugFromChat(files, cont, p, u) == FirstSlug(Lines(files, cont, p, u))

RECURSIVE DistinctAgents(_, _)
DistinctAgents(lines, seen) ==
    IF lines = <<>> THEN <<>>
    ELSE LET a == Head(lines).agent
         IN IF a # 0 /\ a \notin seen
            THEN <<a>> \o DistinctAgents(Tail(lines), seen \cup {a})
            ELSE DistinctAgents(Tail(lines), seen)

parseAgentIDs(files, cont, p, u) == DistinctAgents(Lines(files, cont, p, u), {})

\* ------------------------------------------------------------- resolver
\* filepath.Glob(projects/*/<uuid>.jsonl): the projects, in order, that hold
\* the session file.
GlobJsonl(files, u) == SortedSeq({p \in Projects : Jsonl(p, u) \in files})

\* Every todo file of the directory.
GlobTodoAll(files, u) ==
    LET ord == SortedSeq({t \in FileIds : Todo(t) \in files})
    IN [i \in 1..Len(ord) |-> Todo(ord[i])]

\* filepath.Glob(todos/<uuid>*.json)
GlobTodo(files, u) ==
    LET owners == {t \in FileIds : Todo(t) \in files /\ HasPrefix(Name(t), Name(u))}
        ord == SortedSeq(owners)
    IN [i \in 1..Len(ord) |-> Todo(ord[i])]

MatchFiles(files, p, u) ==
    <<Jsonl(p, u)>> \o Optional(ChatDir(p, u), files) \o Optional(ToolRes(p, u), files)

\* The memory files of every scope.
MemFilesAllScopes(files, ids) ==
    Flatten([i \in 1..Len(ids) |->
        Optional(MemLocal(ids[i]), files) \o Optional(MemProj(ids[i]), files)
        \o Optional(MemUser(ids[i]), files)])

MemFiles(files, ids) ==
    Flatten([i \in 1..Len(ids) |-> Optional(MemLocal(ids[i]), files)])

findRelatedFiles(files, cont, u) ==
    LET matches == GlobJsonl(files, u)
        found == matches # <<>>
        last == IF found THEN matches[Len(matches)] ELSE 0
        slug == IF found THEN getSlugFromChat(files, cont, last, u) ELSE 0
    IN Flatten([i \in 1..Len(matches) |-> MatchFiles(files, matches[i], u)])
       \o (IF slug # 0 THEN Optional(Plan(slug), files) ELSE <<>>)
       \o Optional(Debug(u), files)
       \o GlobTodo(files, u)
       \o Optional(SEnv(u), files)
       \o Optional(FHist(u), files)
       \o (IF found THEN MemFiles(files, parseAgentIDs(files, cont, last, u)) ELSE <<>>)

\* ------------------------------------------------------------- manifests
\* A manifest is [state, version, entries, originalPath, writes]: writes is
\* how many times os.WriteFile has written it (its mtime); state "absent" (no
\* sessions-index.json), "corrupt" (it does not parse) or "ok"; entries is
\* the sequence of the entries' sessionId.
\* A filter that drops the first entry of the session only.
RECURSIVE FilterOutFirst(_, _)
FilterOutFirst(entries, u) ==
    IF entries = <<>> THEN <<>>
    ELSE IF Head(entries) = u THEN Tail(entries)
    ELSE <<Head(entries)>> \o FilterOutFirst(Tail(entries), u)

FilterOut(entries, u) == SelectSeq(entries, LAMBDA e : e # u)

\* A manifest that parses is always written back.
NeedsWriteAlways(man, u) == man.state = "ok"

NeedsWrite(man, u) ==
    man.state = "ok" /\ Len(FilterOut(man.entries, u)) < Len(man.entries)

Rewritten(man, u) ==
    [man EXCEPT !.entries = FilterOut(man.entries, u), !.writes = @ + 1]

\* updateSessionsIndex with every write succeeding, over the projects up to
\* and including `upto`.
IndexUpdated(idx, u, upto) ==
    [p \in Projects |->
        IF p <= upto /\ NeedsWrite(idx[p], u) THEN Rewritten(idx[p], u) ELSE idx[p]]

\* -------------------------------------------------------------- scanner
\* sort.Slice(chats, less) on a list of fewer than 12 elements is an insertion
\* sort: an element moves left while less(it, its predecessor), here while
\* its timestamp is strictly greater.
\* An insertion that moves an element left of every older one.
RECURSIVE InsertChatAscending(_, _)
InsertChatAscending(sorted, c) ==
    IF sorted # <<>> /\ c.Timestamp < sorted[Len(sorted)].Timestamp
    THEN Append(InsertChatAscending(SubSeq(sorted, 1, Len(sorted) - 1), c),
                sorted[Len(sorted)])
    ELSE Append(sorted, c)

RECURSIVE InsertChat(_, _)
InsertChat(sorted, c) ==
    IF sorted # <<>> /\ c.Timestamp > sorted[Len(sorted)].Timestamp
    THEN Append(InsertChat(SubSeq(sorted, 1, Len(sorted) - 1), c), sorted[Len(sorted)])
    ELSE Append(sorted, c)

RECURSIVE SortChats(_)
SortChats(list) ==
    IF list = <<>> THEN <<>>
    ELSE InsertChat(SortChats(SubSeq(list, 1, Len(list) - 1)), list[Len(list)])

\* The *.jsonl files of project p with none left out.
ProjectChatsAll(files, cont, p) ==
    LET ids == SortedSeq({u \in FileIds : Jsonl(p, u) \in files})
    IN [i \in 1..Len(ids) |->
          [UUID |-> ids[i], Project |-> p, Timestamp |-> cont[<<p, ids[i]>>].mtime,
           Title |-> getChatTitle(files, cont, p, ids[i]),
           Version |-> getChatVersion(files, cont, p, ids[i])]]

\* The *.jsonl files directly inside project p, in name order (the order of
\* the identifiers is the order of their names), without the agent- files.
ProjectChats(files, cont, p) ==
    LET ids == SortedSeq({u \in FileIds : Jsonl(p, u) \in files
                                          /\ ~HasPrefix(Name(u), AgentPrefix)})
    IN [i \in 1..Len(ids) |->
          [UUID |-> ids[i], Project |-> p, Timestamp |-> cont[<<p, ids[i]>>].mtime,
           Title |-> getChatTitle(files, cont, p, ids[i]),
           Version |-> getChatVersion(files, cont, p, ids[i])]]

findAllChats(files, cont) ==
    LET ps == SortedSeq(Projects)
    IN SortChats(Flatten([i \in 1..Len(ps) |-> ProjectChats(files, cont, ps[i])]))

\* ---------------------------------------------------------- initial tree
\* What a session owns beside its primary file is one of these sets of kinds.
ExtraSets ==
    { {},
      {"chatdir", "toolres", "debug"},
      {"plan", "todo", "senv", "fhist", "memlocal"} }

ExtraPaths(u, kinds) ==
    {path \in {ChatDir(1, u), ToolRes(1, u), Debug(u), Todo(u), SEnv(u), FHist(u)} :
        path[1] \in kinds}
    \cup (IF "plan" \in kinds THEN {Plan(1)} ELSE {})
    \cup (IF "memlocal" \in kinds THEN {MemLocal(1)} ELSE {})

\* The records of a session file: the slug and the agent id are on a later
\* record than the first.
InitLines(kinds) ==
    <<Record,
      [Record EXCEPT !.type = "user", !.content = <<"w">>, !.version = "v1",
                     !.slug = IF "plan" \in kinds THEN 1 ELSE 0,
                     !.agent = IF "memlocal" \in kinds THEN 1 ELSE 0]>>

\* Every session has its file in project 1; session 1 may have a second file
\* of the same name in project 2 (dup). Project 1 holds an agent- file.
InitFs(extra, dup) ==
    {Jsonl(1, u) : u \in FileIds}
    \cup UNION {ExtraPaths(u, extra[u]) : u \in UUIDs}
    \cup {MemProj(a) : a \in Agents}
    \cup {MemUser(a) : a \in Agents}
    \cup (IF dup THEN {Jsonl(2, 1)} ELSE {})

InitContent(extra) ==
    [k \in Projects \X FileIds |->
        [mtime |-> IF k[1] = 1 /\ k[2] > 0 THEN k[2] ELSE 2,
         lines |-> IF k[1] = 1 /\ k[2] > 0 THEN InitLines(extra[k[2]])
                   ELSE InitLines({})]]

Manifest(state, entries) ==
    [state |-> state, version |-> 1, entries |-> entries, originalPath |-> 1,
     writes |-> 0]

\* The entries of a manifest that lists every session: the newest first, and
\* the newest once more at the end (the writer of the manifests is another
\* program, an identifier can be listed twice).
InitEntries ==
    [i \in 1..(NumUUID + 1) |-> IF i <= NumUUID THEN NumUUID + 1 - i ELSE NumUUID]

\* Project 1's manifest is absent, unreadable or unparseable ("corrupt"), or
\* lists every session; project 2's lists session 1 when it holds its copy.
InitIndex(st, dup) ==
    [p \in Projects |->
        IF p = 1 THEN Manifest(st, IF st = "ok" THEN InitEntries ELSE <<>>)
        ELSE IF dup /\ p = 2 THEN Manifest("ok", <<1>>) ELSE Manifest("absent", <<>>)]

\* Every session owns one of the sets of extras; two sessions that own a
\* plan or an agent memory file have the same slug and the same agent id.
InitExtras == [UUIDs -> ExtraSets]

ManifestStates == {"absent", "corrupt", "ok"}

\* The tree the program is started on.
Tree(extra, dup, st) ==
    /\ fs = InitFs(extra, dup)
    /\ content = InitContent(extra)
    /\ index = InitIndex(st, dup)

\* initialModel(): the list is scanned, everything else is zero.
initialModel ==
    /\ chats = findAllChats(fs, content)
    /\ cursor = 0
    /\ selected = {}
    /\ confirmDelete = FALSE
    /\ deleting = FALSE
    /\ deleted = 0
    /\ error = ""
    /\ height = 0
    /\ scrollOffset = 0
    /\ copiedMsg = NoUUID
    /\ deleteTimer = 0
    /\ copyTimer = 0
    /\ ticks = {}
    /\ batches = {}
    /\ status = "running"
    /\ dispatched = 0
    /\ lastMsg = "init"

\* ---------------------------------------------------------- controller
\* visibleHeight := m.height - 8; if visibleHeight < 1 { visibleHeight = 10 }
visibleHeight(h) == IF h - ChromeHeight < 1 THEN MinPage ELSE h - ChromeHeight

\* m.adjustScroll(): the new scroll offset
adjustScroll(cur, off, h) ==
    IF cur < off THEN cur
    ELSE IF cur >= off + visibleHeight(h) THEN cur - visibleHeight(h) + 1
    ELSE off

Running == status = "running"

\* The commands whose range loop over m.selected has not ended and whose map
\* is still the map the controller holds.
Iterating(b) == b.pc # "returned" /\ b.live
LiveIds == {i \in BatchIds : \E b \in batches : b.id = i /\ Iterating(b)}

\* make(map[int]bool): the controller gets a new map, the running commands
\* keep the old one.
Detached(bs) == {[b EXCEPT !.live = FALSE] : b \in bs}

\* delete(m.selected, i) while commands range over the same map: an entry
\* removed before it is reached is not produced.
MapDelete(bs, i) ==
    {IF Iterating(b) THEN [b EXCEPT !.todo = @ \ {i}] ELSE b : b \in bs}

\* m.selected[i] = true for the i of `grow`, while commands range over the
\* same map: each entry created may be produced or skipped (grow[id] is what
\* the command `id` gets to see). An index the loop has produced once is
\* taken not to be produced again.
MapInsert(bs, grow) ==
    {IF Iterating(b) THEN [b EXCEPT !.todo = @ \cup (grow[b.id] \ b.seen)] ELSE b : b \in bs}

\* A Go panic (index out of range) or a fatal error of the runtime
\* (concurrent map iteration and map write): the process ends.
Crash ==
    /\ status' = "crashed"
    /\ UNCHANGED <<fsVars, ctlVars, ticks, batches, dispatched>>

\* The cursor keys: each sets the cursor and calls adjustScroll.
MoveTo(c) ==
    /\ cursor' = c
    /\ scrollOffset' = adjustScroll(c, scrollOffset, height)
    /\ UNCHANGED <<fsVars, chats, selected, confirmDelete, deleting, deleted, error,
                   height, copiedMsg, deleteTimer, copyTimer, ticks, batches, status,
                   dispatched>>

\* A message that leaves the model as it is.
NoChange == UNCHANGED <<fsVars, ctlVars, ticks, batches, status, dispatched>>

KeyUp == IF cursor > 0 THEN MoveTo(cursor - 1) ELSE NoChange

KeyDown == IF cursor < Len(chats) - 1 THEN MoveTo(cursor + 1) ELSE NoChange

\* pgdown (by = visibleHeight) and ctrl+d (by = visibleHeight / 2)
KeyForward(by) ==
    MoveTo(IF cursor + by >= Len(chats) THEN Len(chats) - 1 ELSE cursor + by)

\* pgup and ctrl+u
KeyBackward(by) == MoveTo(IF cursor - by < 0 THEN 0 ELSE cursor - by)

KeyHome == MoveTo(0)

KeyEnd == MoveTo(IF Len(chats) > 0 THEN Len(chats) - 1 ELSE cursor)

\* " ": toggle the entry under the cursor, in place in the map. A write to a
\* map another goroutine ranges over is a data race: the runtime may stop the
\* program.
KeySpace ==
    \/ /\ cursor \in selected
       /\ selected' = selected \ {cursor}
       /\ batches' = MapDelete(batches, cursor)
       /\ UNCHANGED <<fsVars, chats, cursor, confirmDelete, deleting, deleted, error,
                      height, scrollOffset, copiedMsg, deleteTimer, copyTimer, ticks,
                      status, dispatched>>
    \/ /\ cursor \notin selected
       /\ selected' = selected \cup {cursor}
       /\ \E grow \in [LiveIds -> SUBSET {cursor}] : batches' = MapInsert(batches, grow)
       /\ UNCHANGED <<fsVars, chats, cursor, confirmDelete, deleting, deleted, error,
                      height, scrollOffset, copiedMsg, deleteTimer, copyTimer, ticks,
                      status, dispatched>>
    \/ /\ LiveIds # {}
       /\ Crash

\* The selection "a" leaves on a list of n items.
selectAll(sel, n) == IF Cardinality(sel) = n THEN {} ELSE sel \cup (0..(n - 1))

\* An "a" that selects everything and never clears.
KeySelectAllOnly ==
    /\ selected' = selected \cup (0..(Len(chats) - 1))
    /\ UNCHANGED <<fsVars, chats, cursor, confirmDelete, deleting, deleted, error,
                   height, scrollOffset, copiedMsg, deleteTimer, copyTimer, ticks,
                   batches, status, dispatched>>

\* "a": nothing on an empty list; a new empty map if len(m.selected) ==
\* len(m.chats); otherwise every index is written into the map in place.
KeySelectAll ==
    LET all == 0..(Len(chats) - 1)
    IN IF Len(chats) = 0 THEN NoChange
       ELSE IF Cardinality(selected) = Len(chats)
       THEN /\ selected' = {}
            /\ batches' = Detached(batches)
            /\ UNCHANGED <<fsVars, chats, cursor, confirmDelete, deleting, deleted,
                           error, height, scrollOffset, copiedMsg, deleteTimer,
                           copyTimer, ticks, status, dispatched>>
       ELSE \/ /\ selected' = selected \cup all
               /\ \E grow \in [LiveIds -> SUBSET (all \ selected)] :
                      batches' = MapInsert(batches, grow)
               /\ UNCHANGED <<fsVars, chats, cursor, confirmDelete, deleting, deleted,
                              error, height, scrollOffset, copiedMsg, deleteTimer,
                              copyTimer, ticks, status, dispatched>>
            \/ /\ LiveIds # {}
               /\ Crash

\* "d": open the confirmation dialog if something is selected
\* A "d" that opens the dialog whatever the selection holds.
KeyDeleteAlways ==
    /\ confirmDelete' = TRUE
    /\ UNCHANGED <<fsVars, chats, cursor, selected, deleting, deleted, error, height,
                   scrollOffset, copiedMsg, deleteTimer, copyTimer, ticks, batches,
                   status, dispatched>>

KeyDelete ==
    /\ confirmDelete' = IF Cardinality(selected) > 0 THEN TRUE ELSE confirmDelete
    /\ UNCHANGED <<fsVars, chats, cursor, selected, deleting, deleted, error, height,
                   scrollOffset, copiedMsg, deleteTimer, copyTimer, ticks, batches,
                   status, dispatched>>

\* "r": refresh
KeyRefresh ==
    /\ chats' = findAllChats(fs, content)
    /\ selected' = {}
    /\ batches' = Detached(batches)
    /\ cursor' = 0
    /\ scrollOffset' = 0
    /\ error' = ""
    /\ deleted' = 0
    /\ copiedMsg' = NoUUID
    /\ UNCHANGED <<fsVars, confirmDelete, deleting, height, deleteTimer, copyTimer,
                   ticks, status, dispatched>>

\* "c": copy the UUID under the cursor. m.chats[m.cursor] with a negative
\* cursor panics; copyToClipboard may fail.
KeyCopy ==
    IF cursor >= Len(chats) THEN NoChange
    ELSE IF cursor < 0 THEN Crash
    ELSE \/ /\ error' = "copy"
            /\ UNCHANGED <<fsVars, chats, cursor, selected, confirmDelete, deleting,
                           deleted, height, scrollOffset, copiedMsg, deleteTimer,
                           copyTimer, ticks, batches, status, dispatched>>
         \/ /\ copyTimer < MaxTimer
            /\ copyTimer' = copyTimer + 1
            /\ copiedMsg' = chats[cursor + 1].UUID
            /\ error' = ""
            /\ deleted' = 0
            /\ ticks' = ticks \cup {[type |-> "clearCopiedMsg", id |-> copyTimer + 1]}
            /\ UNCHANGED <<fsVars, chats, cursor, selected, confirmDelete, deleting,
                           height, scrollOffset, deleteTimer, batches, status,
                           dispatched>>

\* "ctrl+c", "q": tea.Quit. The program returns from main; the goroutines of
\* the commands still running end with the process.
KeyQuit ==
    /\ status' = "quit"
    /\ UNCHANGED <<fsVars, ctlVars, ticks, batches, dispatched>>

\* ------------------------------------------------------------- commands
NoMsg == [type |-> "none"]

FreeIds == {i \in BatchIds : \A b \in batches : b.id # i}
FreeId == CHOOSE i \in FreeIds : \A j \in FreeIds : i <= j

\* m.deleteSelectedChats(): the command holds a copy of the model, that is
\* the list as it is now and a reference to the selection map.
\*   todo     the indices the range loop has still to produce
\*   seen     the indices it has produced
\*   live     whether its map is still the controller's m.selected
\*   uuid     chat.UUID of the session being deleted
\*   files    findRelatedFiles(chat.UUID); next is the position in it
\*   count    the local count
\*   msg      the tea.Msg returned, once pc = "returned"
\* started, completed, errAt, touched and removed record what the command
\* did: the sessions it began and completed, how many it had begun when it
\* failed, whether it changed anything of the session it is at, and whether
\* it changed anything at all.
NewBatch ==
    [id |-> FreeId, chats |-> chats, todo |-> selected, seen |-> {}, live |-> TRUE,
     pc |-> "range", uuid |-> NoUUID, files |-> <<>>, next |-> 1, count |-> 0,
     msg |-> NoMsg, started |-> <<>>, completed |-> <<>>, errAt |-> 0,
     touched |-> FALSE, removed |-> FALSE]

\* "enter" in the dialog: return m, m.deleteSelectedChats(). The command
\* starts in a goroutine of its own (one of BatchIds is free).
KeyEnter ==
    /\ FreeIds # {}
    /\ dispatched' = dispatched + 1
    /\ batches' = batches \cup {NewBatch}
    /\ UNCHANGED <<fsVars, ctlVars, ticks, status>>

\* A cancel that also empties the selection.
KeyCancelClears ==
    /\ confirmDelete' = FALSE
    /\ selected' = {}
    /\ UNCHANGED <<fsVars, chats, cursor, deleting, deleted, error, height,
                   scrollOffset, copiedMsg, deleteTimer, copyTimer, ticks, batches,
                   status, dispatched>>

\* "esc", "n" in the dialog
KeyCancel ==
    /\ confirmDelete' = FALSE
    /\ UNCHANGED <<fsVars, chats, cursor, selected, deleting, deleted, error, height,
                   scrollOffset, copiedMsg, deleteTimer, copyTimer, ticks, batches,
                   status, dispatched>>

Keys ==
    {"enter", "esc", "n", "ctrl+c", "q", "up", "k", "down", "j", "pgdown", "ctrl+f",
     "pgup", "ctrl+b", "home", "g", "end", "G", "ctrl+d", "ctrl+u", " ", "a", "d",
     "r", "c", "x"}

\* What lastMsg keeps of a key: the branch of the dialog it took.
KeyKind(k) ==
    IF confirmDelete /\ k = "enter" THEN "enter"
    ELSE IF confirmDelete /\ k \in {"esc", "n"} THEN "cancel"
    ELSE "key"

\* case tea.KeyMsg
KeyMsg(k) ==
    /\ Running
    /\ UNCHANGED bootVars
    /\ lastMsg' = KeyKind(k)
    /\ IF confirmDelete
       THEN CASE k = "enter" -> KeyEnter
              [] k \in {"esc", "n"} -> KeyCancel
              [] OTHER -> NoChange
       ELSE CASE k \in {"ctrl+c", "q"} -> KeyQuit
              [] k \in {"up", "k"} -> KeyUp
              [] k \in {"down", "j"} -> KeyDown
              [] k \in {"pgdown", "ctrl+f"} -> KeyForward(visibleHeight(height))
              [] k \in {"pgup", "ctrl+b"} -> KeyBackward(visibleHeight(height))
              [] k \in {"home", "g"} -> KeyHome
              [] k \in {"end", "G"} -> KeyEnd
              [] k = "ctrl+d" -> KeyForward(visibleHeight(height) \div 2)
              [] k = "ctrl+u" -> KeyBackward(visibleHeight(height) \div 2)
              [] k = " " -> KeySpace
              [] k = "a" -> KeySelectAll
              [] k = "d" -> KeyDelete
              [] k = "r" -> KeyRefresh
              [] k = "c" -> KeyCopy
              [] OTHER -> NoChange

\* case tea.WindowSizeMsg
WindowSizeMsg(h) ==
    /\ Running
    /\ UNCHANGED bootVars
    /\ lastMsg' = "WindowSizeMsg"
    /\ height' = h
    /\ UNCHANGED <<fsVars, chats, cursor, selected, confirmDelete, deleting, deleted,
                   error, scrollOffset, copiedMsg, deleteTimer, copyTimer, ticks,
                   batches, status, dispatched>>

\* The steps of the goroutine of a command (the func returned by
\* deleteSelectedChats). Replace(b, c): the command b becomes c.
Replace(b, c) == (batches \ {b}) \cup {c}

ErrText(kind) == [type |-> "errMsg", text |-> kind]

\* A command that notes the error and goes on with the next session.
FailedContinue(b, kind) ==
    [b EXCEPT !.pc = "range", !.msg = ErrText(kind), !.errAt = Len(b.started)]

\* What a command does once a removal or the index update has failed:
\* return errMsg(...)
Failed(b, kind) ==
    [b EXCEPT !.pc = "returned", !.msg = ErrText(kind), !.errAt = Len(b.started)]

\* The index update taking the place of the removals.
AfterFilesIndexFirst(files, next) == "index"

\* The loop over files ending one file early.
AfterFilesOffByOne(files, next) == IF next >= Len(files) THEN "index" ELSE "remove"

\* After the last os.RemoveAll of a session comes updateSessionsIndex.
AfterFiles(files, next) == IF next > Len(files) THEN "index" ELSE "remove"

\* A resolver that removes the first path it finds.
BatchRangeConsuming(b) ==
    /\ Running
    /\ UNCHANGED bootVars
    /\ b.pc = "range"
    /\ \E idx \in b.todo :
          /\ idx >= 0
          /\ idx < Len(b.chats)
          /\ LET u == b.chats[idx + 1].UUID
                 files == findRelatedFiles(fs, content, u)
             IN /\ batches' = Replace(b, [b EXCEPT !.todo = @ \ {idx},
                       !.seen = @ \cup {idx},
                       !.uuid = u, !.files = files, !.next = 1,
                       !.pc = AfterFiles(files, 1), !.touched = FALSE,
                       !.started = Append(@, u)])
                /\ fs' = fs \ (IF files = <<>> THEN {} ELSE {files[1]})
    /\ UNCHANGED <<content, index, ctlVars, ticks, status, dispatched, lastMsg>>

\* A command that reports an error when it finds nothing to delete.
BatchRangeEmptyFails(b) ==
    /\ Running
    /\ UNCHANGED bootVars
    /\ b.pc = "range"
    /\ IF b.todo = {}
       THEN /\ batches' = Replace(b, IF b.seen = {} THEN Failed(b, "empty")
                   ELSE [b EXCEPT !.pc = "returned",
                            !.msg = [type |-> "deleteCompleteMsg", count |-> b.count]])
            /\ UNCHANGED <<fsVars, ctlVars, ticks, status, dispatched, lastMsg>>
       ELSE \E idx \in b.todo :
              IF idx >= Len(b.chats)
              THEN /\ batches' = Replace(b, [b EXCEPT !.todo = @ \ {idx},
                          !.seen = @ \cup {idx}])
                   /\ UNCHANGED <<fsVars, ctlVars, ticks, status, dispatched, lastMsg>>
              ELSE IF idx < 0
              THEN Crash /\ UNCHANGED lastMsg
              ELSE LET u == b.chats[idx + 1].UUID
                       files == findRelatedFiles(fs, content, u)
                   IN /\ batches' = Replace(b, [b EXCEPT !.todo = @ \ {idx},
                             !.seen = @ \cup {idx},
                             !.uuid = u, !.files = files, !.next = 1,
                             !.pc = AfterFiles(files, 1), !.touched = FALSE,
                             !.started = Append(@, u)])
                      /\ UNCHANGED <<fsVars, ctlVars, ticks, status, dispatched, lastMsg>>

\* for idx := range m.selected: the next index, in no fixed order; the loop
\* ends when none is left. if idx < len(m.chats): m.chats[idx] (a negative
\* index panics), files := findRelatedFiles(chat.UUID).
BatchRange(b) ==
    /\ Running
    /\ UNCHANGED bootVars
    /\ b.pc = "range"
    /\ IF b.todo = {}
       THEN /\ batches' = Replace(b, [b EXCEPT !.pc = "returned",
                   !.msg = [type |-> "deleteCompleteMsg", count |-> b.count]])
            /\ UNCHANGED <<fsVars, ctlVars, ticks, status, dispatched, lastMsg>>
       ELSE \E idx \in b.todo :
              IF idx >= Len(b.chats)
              THEN /\ batches' = Replace(b, [b EXCEPT !.todo = @ \ {idx},
                          !.seen = @ \cup {idx}])
                   /\ UNCHANGED <<fsVars, ctlVars, ticks, status, dispatched, lastMsg>>
              ELSE IF idx < 0
              THEN Crash /\ UNCHANGED lastMsg
              ELSE LET u == b.chats[idx + 1].UUID
                       files == findRelatedFiles(fs, content, u)
                   IN /\ batches' = Replace(b, [b EXCEPT !.todo = @ \ {idx},
                             !.seen = @ \cup {idx},
                             !.uuid = u, !.files = files, !.next = 1,
                             !.pc = AfterFiles(files, 1), !.touched = FALSE,
                             !.started = Append(@, u)])
                      /\ UNCHANGED <<fsVars, ctlVars, ticks, status, dispatched, lastMsg>>

\* os.RemoveAll(path): nil when the path and everything below it is gone (also
\* when it did not exist); on an error the path is still there and any part
\* of what is below it may be gone.
RemoveAllOk(files, path) == files \ ({path} \cup Children(path))

RemoveAllErr(files, path) == {files \ gone : gone \in SUBSET (Children(path) \cap files)}

\* for _, file := range files { if err := os.RemoveAll(file); err != nil {
\* return errMsg } }
BatchRemove(b) ==
    /\ Running
    /\ UNCHANGED bootVars
    /\ b.pc = "remove"
    /\ LET path == b.files[b.next]
       IN \/ /\ fs' = RemoveAllOk(fs, path)
             /\ batches' = Replace(b, [b EXCEPT !.next = @ + 1,
                    !.pc = AfterFiles(b.files, b.next + 1),
                    !.touched = @ \/ (fs' # fs), !.removed = @ \/ (fs' # fs)])
          \/ /\ path \in fs
             /\ fs' \in RemoveAllErr(fs, path)
             /\ batches' = Replace(b, [Failed(b, "delete") EXCEPT
                    !.touched = @ \/ (fs' # fs), !.removed = @ \/ (fs' # fs)])
    /\ UNCHANGED <<content, index, ctlVars, ticks, status, dispatched, lastMsg>>

\* A failed os.WriteFile leaves the manifest as it was (it could not be
\* opened) or truncated (it no longer parses).
WriteErr(man) ==
    {man, [Manifest("corrupt", <<>>) EXCEPT !.writes = man.writes + 1]}

\* An index update that gives up at a manifest that does not parse.
BatchIndexStrict(b) ==
    /\ Running
    /\ UNCHANGED bootVars
    /\ b.pc = "index"
    /\ \/ /\ \A p \in Projects : index[p].state # "corrupt"
          /\ index' = IndexUpdated(index, b.uuid, NumProj)
          /\ batches' = Replace(b, [b EXCEPT !.pc = "range", !.count = @ + 1,
                 !.completed = Append(@, b.uuid),
                 !.touched = @ \/ (index' # index),
                 !.removed = @ \/ (index' # index)])
       \/ /\ index' = index
          /\ batches' = Replace(b, Failed(b, "index"))
    /\ UNCHANGED <<fs, content, ctlVars, ticks, status, dispatched, lastMsg>>

\* updateSessionsIndex(chat.UUID), then count++. It fails when os.ReadDir
\* fails (nothing is written) or when an os.WriteFile fails (the manifests of
\* the projects before it are written).
BatchIndex(b) ==
    /\ Running
    /\ UNCHANGED bootVars
    /\ b.pc = "index"
    /\ \/ /\ index' = IndexUpdated(index, b.uuid, NumProj)
          /\ batches' = Replace(b, [b EXCEPT !.pc = "range", !.count = @ + 1,
                 !.completed = Append(@, b.uuid),
                 !.touched = @ \/ (index' # index),
                 !.removed = @ \/ (index' # index)])
       \/ /\ index' = index
          /\ batches' = Replace(b, Failed(b, "index"))
       \/ \E p \in Projects :
             /\ NeedsWrite(index[p], b.uuid)
             /\ \E man \in WriteErr(index[p]) :
                   index' = [IndexUpdated(index, b.uuid, p - 1) EXCEPT ![p] = man]
             /\ batches' = Replace(b, [Failed(b, "index") EXCEPT
                    !.touched = @ \/ (index' # index),
                    !.removed = @ \/ (index' # index)])
    /\ UNCHANGED <<fs, content, ctlVars, ticks, status, dispatched, lastMsg>>

\* ------------------------------------------------- results and timers
\* A completion that reloads the list and leaves the cursor where it was.
DeleteCompleteMsgKeepsCursor(b) ==
    /\ Running
    /\ UNCHANGED bootVars
    /\ b.pc = "returned"
    /\ b.msg.type = "deleteCompleteMsg"
    /\ lastMsg' = "deleteCompleteMsg"
    /\ deleting' = FALSE
    /\ deleted' = b.msg.count
    /\ deleteTimer' = deleteTimer + 1
    /\ chats' = findAllChats(fs, content)
    /\ selected' = {}
    /\ batches' = Detached(batches \ {b})
    /\ scrollOffset' = 0
    /\ confirmDelete' = FALSE
    /\ error' = ""
    /\ copiedMsg' = NoUUID
    /\ IF Len(chats') = 0
       THEN status' = "quit" /\ ticks' = ticks
       ELSE /\ status' = status
            /\ ticks' = ticks \cup {[type |-> "clearDeleteMsg", id |-> deleteTimer + 1]}
    /\ UNCHANGED <<fsVars, cursor, height, copyTimer, dispatched>>

\* case deleteCompleteMsg
DeleteCompleteMsg(b) ==
    /\ Running
    /\ UNCHANGED bootVars
    /\ b.pc = "returned"
    /\ b.msg.type = "deleteCompleteMsg"
    /\ lastMsg' = "deleteCompleteMsg"
    /\ deleting' = FALSE
    /\ deleted' = b.msg.count
    /\ deleteTimer' = deleteTimer + 1
    /\ chats' = findAllChats(fs, content)
    /\ selected' = {}
    /\ batches' = Detached(batches \ {b})
    /\ cursor' = 0
    /\ scrollOffset' = 0
    /\ confirmDelete' = FALSE
    /\ error' = ""
    /\ copiedMsg' = NoUUID
    /\ IF Len(chats') = 0
       THEN status' = "quit" /\ ticks' = ticks
       ELSE /\ status' = status
            /\ ticks' = ticks \cup {[type |-> "clearDeleteMsg", id |-> deleteTimer + 1]}
    /\ UNCHANGED <<fsVars, height, copyTimer, dispatched>>

\* case errMsg
ErrMsg(b) ==
    /\ Running
    /\ UNCHANGED bootVars
    /\ b.pc = "returned"
    /\ b.msg.type = "errMsg"
    /\ lastMsg' = "errMsg"
    /\ deleting' = FALSE
    /\ error' = b.msg.text
    /\ batches' = batches \ {b}
    /\ UNCHANGED <<fsVars, chats, cursor, selected, confirmDelete, deleted, height,
                   scrollOffset, copiedMsg, deleteTimer, copyTimer, ticks, status,
                   dispatched>>

\* A clear event that is honoured whatever its id.
ClearCopiedMsgAnyId(t) ==
    /\ Running
    /\ UNCHANGED bootVars
    /\ t.type = "clearCopiedMsg"
    /\ lastMsg' = "clearCopiedMsg"
    /\ ticks' = ticks \ {t}
    /\ copiedMsg' = NoUUID
    /\ UNCHANGED <<fsVars, chats, cursor, selected, confirmDelete, deleting, deleted,
                   error, height, scrollOffset, deleteTimer, copyTimer, batches, status,
                   dispatched>>

\* case clearCopiedMsg
ClearCopiedMsg(t) ==
    /\ Running
    /\ UNCHANGED bootVars
    /\ t.type = "clearCopiedMsg"
    /\ lastMsg' = "clearCopiedMsg"
    /\ ticks' = ticks \ {t}
    /\ copiedMsg' = IF t.id = copyTimer THEN NoUUID ELSE copiedMsg
    /\ UNCHANGED <<fsVars, chats, cursor, selected, confirmDelete, deleting, deleted,
                   error, height, scrollOffset, deleteTimer, copyTimer, batches, status,
                   dispatched>>

\* case clearDeleteMsg
ClearDeleteMsg(t) ==
    /\ Running
    /\ UNCHANGED bootVars
    /\ t.type = "clearDeleteMsg"
    /\ lastMsg' = "clearDeleteMsg"
    /\ ticks' = ticks \ {t}
    /\ deleted' = IF t.id = deleteTimer THEN 0 ELSE deleted
    /\ UNCHANGED <<fsVars, chats, cursor, selected, confirmDelete, deleting, error,
                   height, scrollOffset, copiedMsg, deleteTimer, copyTimer, batches,
                   status, dispatched>>

\* ------------------------------------------------ startup and self-update
\* The time main reads (time.Now), in whole hours since the epoch, and the
\* values the fields of a config file take.
Now == 3
CheckTimes == 0..(Now - 1)
Intervals == 0..2

\* A Config: json.Unmarshal leaves a field the file does not name at its
\* zero value (auto_updates false, update_check_interval_hours 0).
Configs ==
    [AutoUpdates : BOOLEAN, LastUpdateCheck : CheckTimes,
     UpdateCheckIntervalHrs : Intervals]

ZeroConfig ==
    [AutoUpdates |-> FALSE, LastUpdateCheck |-> 0, UpdateCheckIntervalHrs |-> 0]

\* The config main writes on the first run.
FirstRunConfig ==
    [AutoUpdates |-> TRUE, LastUpdateCheck |-> 0, UpdateCheckIntervalHrs |-> 1]

\* The config file: the set of the one Config it holds, or {} when it is
\* missing or does not parse.
ConfigFiles == {{}} \cup {{c} : c \in Configs}

shouldCheckUpdate(lastCheck, intervalHours) ==
    IF lastCheck = 0 THEN TRUE ELSE (Now - lastCheck) >= intervalHours

\* The binaries: what the path of the executable, its backup and the
\* temporary download hold.
BinPaths == {"exe", "backup", "tmp"}
Installed == [p \in BinPaths |-> IF p = "exe" THEN "old" ELSE "none"]

\* copyFile: "ok"; "unopened", an error before the destination is written
\* (os.Open, Stat, os.OpenFile); "partial", an error of io.Copy or Sync after
\* the destination was truncated.
CopyOutcomes == {"ok", "unopened", "partial"}

copyFileErr(d, src, o) == d[src] = "none" \/ o # "ok"

copyFile(d, src, dst, o) ==
    IF d[src] = "none" \/ o = "unopened" THEN d
    ELSE IF o = "partial" THEN [d EXCEPT ![dst] = "partial"]
    ELSE [d EXCEPT ![dst] = d[src]]

\* What the calls of downloadAndInstall return: the first of the steps up
\* to os.Executable that fails ("none": none does), and the outcome of each
\* call after it.
PreFailures == {"none", "temp", "download", "write", "chmod", "executable"}
Outcomes ==
    [fail : PreFailures, backup : CopyOutcomes, rename : BOOLEAN,
     remove : BOOLEAN, install : CopyOutcomes, restore : CopyOutcomes,
     unbackup : BOOLEAN]

\* return err, with the deferred os.Remove(tmpPath)
InstallFailed(d, e) == [files |-> [d EXCEPT !["tmp"] = "none"], err |-> e]

\* os.Remove(backupPath); return nil
InstallDone(d, o) ==
    [files |-> [d EXCEPT !["backup"] = IF o.unbackup THEN "none" ELSE @,
                         !["tmp"] = "none"],
     err |-> ""]

downloadAndInstall(d, o) ==
    IF o.fail = "temp" THEN [files |-> d, err |-> "failed to create temp file"]
    ELSE IF o.fail = "download" THEN InstallFailed(d, "failed to download")
    ELSE IF o.fail = "write" THEN InstallFailed(d, "failed to write binary")
    ELSE IF o.fail = "chmod" THEN InstallFailed(d, "failed to chmod")
    ELSE IF o.fail = "executable"
    THEN InstallFailed(d, "failed to get executable path")
    ELSE
    LET d1 == [d EXCEPT !["tmp"] = "new"]
        d2 == copyFile(d1, "exe", "backup", o.backup)
        d3 == [d2 EXCEPT !["exe"] = "none"]
        d4 == copyFile(d3, "tmp", "exe", o.install)
    IN IF copyFileErr(d1, "exe", o.backup)
       THEN InstallFailed(d2, "failed to backup current binary")
       ELSE IF o.rename
       THEN InstallDone([d2 EXCEPT !["exe"] = "new", !["tmp"] = "none"], o)
       ELSE IF ~o.remove
       THEN InstallFailed(copyFile(d2, "backup", "exe", o.restore),
                          "failed to remove old binary")
       ELSE IF copyFileErr(d3, "tmp", o.install)
       THEN InstallFailed(copyFile(d4, "backup", "exe", o.restore),
                          "failed to install new binary")
       ELSE InstallDone(d4, o)

\* What the user types at "Download and install? [y/N]"; the answer is
\* trimmed and lowered before it is compared with "y".
Responses == {"y", "Y", " y", "n", ""}
Accepted(r) == r \in {"y", "Y", " y"}

\* checkForUpdate, then promptAndUpdate when it names a version, then the
\* saving of the check time. newer: checkForUpdate returned a version;
\* manual: the call under --update.
CheckAndPrompt(newer, r, o, saved, manual) ==
    LET ask == newer /\ Accepted(r)
        res == downloadAndInstall(update.files, o)
        installed == ask /\ res.err = ""
        stamp == IF newer THEN ~installed ELSE ~manual
        cfg == [config EXCEPT !.LastUpdateCheck = Now]
    IN /\ update' = IF ask
                    THEN [files |-> res.files, err |-> res.err,
                          calls |-> update.calls + 1]
                    ELSE update
       /\ config' = IF stamp THEN cfg ELSE config
       /\ main' = [main EXCEPT
                     !.checks = @ + 1,
                     !.file = IF stamp /\ saved THEN {cfg} ELSE @,
                     !.pc = IF installed THEN "exec"
                            ELSE IF manual THEN "exit" ELSE "tui"]

\* main: loadConfig, and the first-run setup when it fails
LoadConfig ==
    /\ main.pc = "load"
    /\ IF main.file # {}
       THEN /\ config' \in main.file
            /\ main' = [main EXCEPT !.pc = "defaults", !.read = main.file]
       ELSE \E dirOk \in BOOLEAN, saved \in BOOLEAN :
               IF dirOk
               THEN /\ config' = FirstRunConfig
                    /\ main' = [main EXCEPT
                                  !.pc = "defaults",
                                  !.file = IF saved THEN {FirstRunConfig} ELSE @]
               ELSE /\ config' = config
                    /\ main' = [main EXCEPT !.pc = "exit"]
    /\ UNCHANGED <<update, tuiVars>>

\* main: "Set defaults for existing configs without update settings"
SetDefaults ==
    /\ main.pc = "defaults"
    /\ config' = IF config.UpdateCheckIntervalHrs = 0
                 THEN [config EXCEPT !.UpdateCheckIntervalHrs = 1,
                                     !.AutoUpdates = TRUE]
                 ELSE config
    /\ main' = [main EXCEPT !.pc = "flags"]
    /\ UNCHANGED <<update, tuiVars>>

\* main: if *updateFlag
ManualUpdate ==
    /\ main.pc = "flags"
    /\ main.updateFlag
    /\ \E newer \in BOOLEAN, r \in Responses, o \in Outcomes, saved \in BOOLEAN :
          CheckAndPrompt(newer, r, o, saved, TRUE)
    /\ UNCHANGED tuiVars

\* main: the automatic update check
AutoUpdate ==
    /\ main.pc = "flags"
    /\ ~main.updateFlag
    /\ IF /\ config.AutoUpdates
          /\ ~main.env
          /\ shouldCheckUpdate(config.LastUpdateCheck, config.UpdateCheckIntervalHrs)
       THEN \E newer \in BOOLEAN, r \in Responses, o \in Outcomes,
               saved \in BOOLEAN :
               CheckAndPrompt(newer, r, o, saved, FALSE)
       ELSE /\ main' = [main EXCEPT !.pc = "tui"]
            /\ UNCHANGED <<config, update>>
    /\ UNCHANGED tuiVars

\* The program at tea.NewProgram: the config loaded, no update installed.
Started ==
    /\ config = FirstRunConfig
    /\ main = [pc |-> "tui", file |-> {FirstRunConfig}, read |-> {FirstRunConfig},
               env |-> FALSE, updateFlag |-> FALSE, checks |-> 0]
    /\ update = [files |-> Installed, err |-> "", calls |-> 0]

\* ------------------------------------------------------- specifications
\* Spec: the list and the dialog under one key of every case of Update's
\* switch but "c" (and both "esc" and "n"), on a terminal that is resized,
\* over a tree of NumUUID sessions of which session 1 owns a debug log. The
\* user confirms one deletion.
ListKeys ==
    {"esc", "n", "q", "up", "down", "pgdown", "pgup", "home", "end", "ctrl+d",
     "ctrl+u", " ", "a", "d", "r", "x"}

Init ==
    /\ Tree([u \in UUIDs |-> IF u = 1 THEN {"debug"} ELSE {}], FALSE, "ok")
    /\ initialModel
    /\ Started

\* "enter", pressed until a deletion has been dispatched.
ConfirmOnce ==
    /\ dispatched = 0
    /\ KeyMsg("enter")

Next ==
    \/ \E k \in ListKeys : KeyMsg(k)
    \/ ConfirmOnce
    \/ \E h \in Heights : WindowSizeMsg(h)
    \/ \E b \in batches : BatchRange(b)
    \/ \E b \in batches : BatchRemove(b)
    \/ \E b \in batches : BatchIndex(b)
    \/ \E b \in batches : DeleteCompleteMsg(b)
    \/ \E b \in batches : ErrMsg(b)
    \/ \E t \in ticks : ClearDeleteMsg(t)

Spec == Init /\ [][Next]_vars

\* RaceSpec: the deletion workflow when "enter" is pressed up to MaxDispatch
\* times, also while a command runs, on a tree of one session with a debug
\* log and a terminal whose size is not reported.
RaceKeys == {"esc", "n", "q", "down", "up", " ", "a", "d", "r", "x"}

RaceInit ==
    /\ fs = {Jsonl(1, 1), Debug(1)}
    /\ content = InitContent([u \in UUIDs |-> {}])
    /\ index = [p \in Projects |->
                  IF p = 1 THEN Manifest("ok", <<1>>) ELSE Manifest("absent", <<>>)]
    /\ initialModel
    /\ Started

ConfirmAgain ==
    /\ dispatched < MaxDispatch
    /\ KeyMsg("enter")

RaceNext ==
    \/ \E k \in RaceKeys : KeyMsg(k)
    \/ ConfirmAgain
    \/ \E b \in batches : BatchRange(b)
    \/ \E b \in batches : BatchRemove(b)
    \/ \E b \in batches : BatchIndex(b)
    \/ \E b \in batches : DeleteCompleteMsg(b)
    \/ \E b \in batches : ErrMsg(b)
    \/ \E t \in ticks : ClearDeleteMsg(t)

RaceSpec == RaceInit /\ [][RaceNext]_vars

\* DeleteSpec: one deletion command and its result, from the open dialog with
\* a selection, over the trees of Tree (extras of session 1, a second copy of
\* its file, the three states of the manifest).
DeleteInit ==
    /\ \E extra \in InitExtras, dup \in BOOLEAN, st \in ManifestStates :
          Tree(extra, dup, st)
    /\ chats = findAllChats(fs, content)
    /\ cursor = 0
    /\ selected \in (SUBSET (0..(Len(chats) - 1))) \ {{}}
    /\ confirmDelete = TRUE
    /\ deleting = FALSE
    /\ deleted = 0
    /\ error = ""
    /\ height = 0
    /\ scrollOffset = 0
    /\ copiedMsg = NoUUID
    /\ deleteTimer = 0
    /\ copyTimer = 0
    /\ ticks = {}
    /\ batches = {}
    /\ status = "running"
    /\ dispatched = 0
    /\ lastMsg = "key"
    /\ Started

DeleteNext ==
    \/ ConfirmOnce
    \/ \E b \in batches : BatchRange(b)
    \/ \E b \in batches : BatchRemove(b)
    \/ \E b \in batches : BatchIndex(b)
    \/ \E b \in batches : DeleteCompleteMsg(b)
    \/ \E b \in batches : ErrMsg(b)

DeleteSpec == DeleteInit /\ [][DeleteNext]_vars

\* TimerSpec: the status messages and their timers: copies ("c", at most
\* MaxTimer that succeed) and deletions ("enter" up to MaxDispatch times),
\* with the clear events delivered in any order, on a tree of two sessions.
\* The dialog is left by a completed deletion only.
TimerKeys == {" ", "d", "c"}

TimerInit ==
    /\ fs = {Jsonl(1, 1), Jsonl(1, 2)}
    /\ content = InitContent([u \in UUIDs |-> {}])
    /\ index = [p \in Projects |->
                  IF p = 1 THEN Manifest("ok", <<1, 2>>) ELSE Manifest("absent", <<>>)]
    /\ initialModel
    /\ Started

TimerNext ==
    \/ \E k \in TimerKeys : KeyMsg(k)
    \/ ConfirmAgain
    \/ \E b \in batches : BatchRange(b)
    \/ \E b \in batches : BatchRemove(b)
    \/ \E b \in batches : BatchIndex(b)
    \/ \E b \in batches : DeleteCompleteMsg(b)
    \/ \E b \in batches : ErrMsg(b)
    \/ \E t \in ticks : ClearCopiedMsg(t)
    \/ \E t \in ticks : ClearDeleteMsg(t)

TimerSpec == TimerInit /\ [][TimerNext]_vars

\* SelectSpec: the selection keys and the dialog, without deletion, on a
\* list of NumUUID + 1 items (session 1 has a copy in project 2).
SelectKeys == {" ", "a", "up", "down", "d", "esc", "r", "x"}

SelectInit ==
    /\ Tree([u \in UUIDs |-> {}], TRUE, "ok")
    /\ initialModel
    /\ Started

SelectNext ==
    \/ \E k \in SelectKeys : KeyMsg(k)
    \/ \E h \in Heights : WindowSizeMsg(h)

SelectSpec == SelectInit /\ [][SelectNext]_vars

\* The scan of session files of many shapes: session 1's file is a first
\* line, a run of identical filler lines that ends before, at or after the
\* end of the scan window, and up to two more lines.
UserRec(c) == [Record EXCEPT !.type = "user", !.content = c, !.version = "v2"]
MetaRec == [Record EXCEPT !.type = "user", !.isMeta = TRUE, !.content = <<"w">>,
                          !.version = "v3"]
SummaryRec(t) == [Record EXCEPT !.type = "summary", !.summary = t, !.version = "v2"]
BadRec == [Record EXCEPT !.form = "bad"]
LongRec == [Record EXCEPT !.form = "long", !.type = "user", !.content = <<"w">>,
                          !.version = "v2"]

Contents ==
    { <<"w">>,
      <<"<sys>", "s", "</sys>">>,
      <<" ", "<sys>", "s", "</sys>", " ", "w", " ", " ", "w">>,
      <<"<", "w">> }

FirstRecs == {[Record EXCEPT !.version = "v1"],
              [UserRec(<<"first">>) EXCEPT !.version = "v1"],
              LongRec}
FillRecs == {BadRec, MetaRec}
FillCounts == {0, ScanWindow - 2, ScanWindow - 1, ScanWindow}
TailRecs ==
    {BadRec, LongRec, SummaryRec(<<"s">>), SummaryRec(<<>>)}
    \cup {UserRec(c) : c \in Contents}
Tails == {<<>>} \cup {<<r>> : r \in TailRecs} \cup {<<r, t>> : r \in TailRecs, t \in TailRecs}

FileShapes ==
    {<<first>> \o [i \in 1..k |-> fill] \o tail :
        first \in FirstRecs, k \in FillCounts, fill \in FillRecs, tail \in Tails}

TitleKeys == {"r", "down", "up"}

TitleInit ==
    /\ fs = {Jsonl(1, u) : u \in UUIDs}
    /\ \E lines \in FileShapes :
          content = [InitContent([u \in UUIDs |-> {}]) EXCEPT ![<<1, 1>>].lines = lines]
    /\ index = InitIndex("absent", FALSE)
    /\ initialModel
    /\ Started

TitleNext == \E k \in TitleKeys : KeyMsg(k)

TitleSpec == TitleInit /\ [][TitleNext]_vars

\* StartSpec: main from loadConfig to tea.NewProgram (or to its exit), over
\* every config file, with and without CLAUDE_CHATS_DISABLE_AUTOUPDATER=1 and
\* --update, every answer of the release server and of the user, and every
\* outcome of the file operations of the self-update.
StartInit ==
    /\ Tree([u \in UUIDs |-> {}], FALSE, "ok")
    /\ initialModel
    /\ config = ZeroConfig
    /\ \E f \in ConfigFiles, e \in BOOLEAN, u \in BOOLEAN :
          main = [pc |-> "load", file |-> f, read |-> {}, env |-> e,
                  updateFlag |-> u, checks |-> 0]
    /\ update = [files |-> Installed, err |-> "", calls |-> 0]

StartNext ==
    \/ LoadConfig
    \/ SetDefaults
    \/ ManualUpdate
    \/ AutoUpdate

StartSpec == StartInit /\ [][StartNext]_vars

\* ---------------------------------------------------------------- claims
\* A manifest that parses lists session u.
Listed(u) == \E p \in Projects : index[p].state = "ok" /\ u \in Range(index[p].entries)

\* Every path the resolver finds for u is gone and no manifest lists it.
SessionGone(u) == findRelatedFiles(fs, content, u) = <<>> /\ ~Listed(u)

\* C1: at most one deletion batch is in flight (dispatched, its completion
\* event not yet processed) at any time.
C1_OneBatchInFlight == Cardinality(batches) <= 1

\* C2: files and manifest entries are removed only after "enter" was pressed
\* in the open dialog: nothing changes on disk before a command is
\* dispatched, a command is dispatched only by "enter" in the dialog, "d",
\* "esc" and "n" change nothing on disk and dispatch nothing, and a cancel
\* closes the dialog leaving selection, cursor and scroll offset as they were.
C2_RemovalOnlyAfterConfirm ==
    [][ /\ (dispatched = 0 => UNCHANGED <<fs, index>>)
        /\ (dispatched' # dispatched => confirmDelete /\ lastMsg' = "enter")
        /\ ((KeyMsg("d") \/ KeyMsg("esc") \/ KeyMsg("n"))
               => UNCHANGED <<fs, index, batches, dispatched>>)
        /\ ((confirmDelete /\ (KeyMsg("esc") \/ KeyMsg("n")))
               => ~confirmDelete' /\ UNCHANGED <<selected, cursor, scrollOffset>>)
      ]_vars

\* C2 witness: the dialog was cancelled with a selection, the cursor and the
\* scroll offset off their initial values, and every session file is there.
C2_Cancelled ==
    /\ lastMsg = "cancel"
    /\ ~confirmDelete
    /\ selected # {}
    /\ cursor > 0
    /\ scrollOffset > 0
    /\ dispatched = 0
    /\ \A u \in UUIDs : Jsonl(1, u) \in fs /\ Listed(u)

\* C3: when the command has returned, every session it completed is gone
\* entirely, and the session it failed at is either untouched or has lost
\* every path of its related-file set and its manifest entries.
C3_AllOrNothing ==
    \A b \in batches :
        b.pc = "returned" =>
            /\ \A i \in 1..Len(b.completed) : SessionGone(b.completed[i])
            /\ b.errAt # 0 =>
                  \/ ~b.touched
                  \/ Range(b.files) \cap fs = {} /\ ~Listed(b.uuid)

\* C4: once a removal or an index update has failed the command has
\* returned: from then on no path and no manifest changes, and every session
\* it had not begun still has its session file.
C4_AbortAtFirstError ==
    [][ \A b \in batches :
          b.errAt # 0 =>
              /\ b.pc = "returned"
              /\ UNCHANGED <<fs, index>>
              /\ \A idx \in b.todo :
                    LET c == b.chats[idx + 1]
                    IN c.UUID \notin Range(b.started) => Jsonl(c.Project, c.UUID) \in fs'
      ]_vars

\* C4 witness: a command failed after it had removed something, with a
\* selected session not begun.
C4_FailedWithRest ==
    \E b \in batches :
        /\ b.errAt # 0
        /\ b.removed
        /\ \E idx \in b.todo : b.chats[idx + 1].UUID \notin Range(b.started)

\* C5: the message a command returns, an error included, carries the count of
\* the sessions it completed.
C5_CountReturned ==
    \A b \in batches :
        b.pc = "returned" => "count" \in DOMAIN b.msg /\ b.msg.count = Len(b.completed)

\* C6: for every session a command has deleted with every removal and the
\* index update returning no error, the resolver finds nothing on the tree
\* as it is now and no manifest that parses lists the session.
C6_NothingLeft ==
    \A b \in batches :
        \A i \in 1..Len(b.completed) :
            /\ findRelatedFiles(fs, content, b.completed[i]) = <<>>
            /\ \A p \in Projects :
                  index[p].state = "ok" => b.completed[i] \notin Range(index[p].entries)

\* C6 witness: a command completed session 1 and a second session, removing
\* paths and rewriting a manifest that parses.
C6_Deleted ==
    \E b \in batches :
        /\ Len(b.completed) > 1
        /\ 1 \in Range(b.completed)
        /\ b.removed
        /\ index[1].state = "ok"

\* C7: while a deletion is in flight no key changes the cursor, the
\* selection, the scroll offset, the confirmation flag or the list, and none
\* dispatches a command.
C7_NoInputInFlight ==
    [][ (batches # {} /\ \E k \in Keys : KeyMsg(k))
           => UNCHANGED <<cursor, selected, scrollOffset, confirmDelete, chats,
                          dispatched>>
      ]_vars

\* C8: once the result of a deletion has been processed, a success or a
\* failure, the confirmation dialog is closed.
C8_BrowsingAfterResult ==
    lastMsg \in {"deleteCompleteMsg", "errMsg"} => ~confirmDelete

\* C9: no key ends a deletion in flight: the program does not quit while a
\* command has not returned.
C9_NoCancellation ==
    status = "quit" => \A b \in batches : b.pc = "returned"

\* C10: when the result of a command that removed something is processed, a
\* success or an error, the list is scanned again and the selection cleared.
C10_ReloadAfterMutation ==
    [][ \A b \in batches :
          (b.removed /\ (ErrMsg(b) \/ DeleteCompleteMsg(b)))
             => selected' = {} /\ chats' = findAllChats(fs', content')
      ]_vars

\* Some timer event that is pending clears the deletion count, the copy
\* confirmation, the error.
ClearsDeleted == ENABLED (\E t \in ticks : ClearDeleteMsg(t) /\ deleted' = 0)
ClearsCopied == ENABLED (\E t \in ticks : ClearCopiedMsg(t) /\ copiedMsg' = NoUUID)
ClearsError ==
    ENABLED (\E t \in ticks : (ClearDeleteMsg(t) \/ ClearCopiedMsg(t)) /\ error' = "")

\* C11: while the program runs, every status message shown (the deletion
\* count, the copy confirmation, the error) has a pending timer event whose
\* delivery clears it.
C11_ClearScheduled ==
    Running =>
        /\ deleted # 0 => ClearsDeleted
        /\ copiedMsg # NoUUID => ClearsCopied
        /\ error # "" => ClearsError

\* The count and the copy confirmation do have their timer event.
C11_CountAndCopyCleared ==
    Running =>
        /\ deleted # 0 => ClearsDeleted
        /\ copiedMsg # NoUUID => ClearsCopied

\* C12: a clear event is taken off the pending events; it clears its message
\* if its id is the current counter of its kind, and otherwise leaves the
\* message as it is.
C12_StaleClearIgnored ==
    [][ \A t \in ticks :
          (ticks' = ticks \ {t} /\ lastMsg' = t.type) =>
              /\ t.type = "clearCopiedMsg" =>
                    copiedMsg' = (IF t.id = copyTimer THEN NoUUID ELSE copiedMsg)
              /\ t.type = "clearDeleteMsg" =>
                    deleted' = (IF t.id = deleteTimer THEN 0 ELSE deleted)
      ]_vars

\* C12 witness: the clear event of the first copy arrived after the second
\* copy, whose confirmation is still shown with its own event pending; and
\* the same for two deletions.
C12_StaleArrived ==
    \/ /\ lastMsg = "clearCopiedMsg"
       /\ copyTimer = 2
       /\ copiedMsg # NoUUID
       /\ ticks = {[type |-> "clearCopiedMsg", id |-> 2]}
    \/ /\ lastMsg = "clearDeleteMsg"
       /\ deleteTimer = 2
       /\ deleted # 0
       /\ ticks = {[type |-> "clearDeleteMsg", id |-> 2]}

\* C13: after every event the cursor lies inside the visible window
\* [scrollOffset, scrollOffset + pageHeight), the page height being that of
\* the current terminal height.
C13_CursorInWindow ==
    /\ scrollOffset <= cursor
    /\ cursor < scrollOffset + visibleHeight(height)

\* C14: the page height, computed from the terminal height, is never smaller
\* than the minimum page size.
C14_PageHeightFloor == visibleHeight(height) >= MinPage

\* C15: once a deleteCompleteMsg has been handled the list is the one on
\* disk, the selection is empty, the cursor and the scroll offset are 0 and
\* the dialog is closed.
C15_ResetOnSuccess ==
    lastMsg = "deleteCompleteMsg" =>
        /\ chats = findAllChats(fs, content)
        /\ selected = {}
        /\ cursor = 0
        /\ scrollOffset = 0
        /\ ~confirmDelete

\* C15 witness: a deletion completed and the list reloaded is shorter, on a
\* terminal whose page holds one item.
C15_Reloaded ==
    /\ lastMsg = "deleteCompleteMsg"
    /\ Running
    /\ Len(chats) > 0
    /\ Len(chats) < NumUUID
    /\ visibleHeight(height) = 1

\* C16 as stated: on a non-empty list, "a" pressed twice from any selection
\* leaves the empty selection.
C16_TwiceClears ==
    Len(chats) > 0 => selectAll(selectAll(selected, Len(chats)), Len(chats)) = {}

\* C16, amended: "a" in the list is the toggle selectAll; from a selection
\* that is not the whole list one press selects every index and a second
\* clears, and from the whole list one press clears.
C16_SelectAllToggle ==
    /\ [](Len(chats) > 0 =>
            LET n == Len(chats)
                all == 0..(n - 1)
                once == selectAll(selected, n)
            IN /\ selected = all => once = {}
               /\ selected # all => once = all /\ selectAll(once, n) = {})
    /\ [][ (~confirmDelete /\ KeyMsg("a")) =>
              selected' = (IF Len(chats) = 0 THEN selected
                           ELSE selectAll(selected, Len(chats))) ]_vars

\* C16 witness: every item of a list of three or more is selected, which
\* "a" clears.
C16_AllSelected ==
    /\ Len(chats) >= 3
    /\ selected = 0..(Len(chats) - 1)
    /\ ~confirmDelete
    /\ lastMsg = "key"

\* C17: no key pressed while the confirmation dialog is open or while a
\* deletion is in flight changes the selection.
C17_SelectionOnlyInBrowsing ==
    [][ ((confirmDelete \/ batches # {}) /\ \E k \in Keys : KeyMsg(k))
           => UNCHANGED selected ]_vars

\* The paths a recursive removal of the paths of `files` can take away.
Covered(files) == UNION {{files[i]} \cup Children(files[i]) : i \in 1..Len(files)}

\* C18: every path the resolver returns exists when it is resolved (a
\* missing optional path is skipped); a removal fails only at a path that
\* exists; when the removals of a session are over every path of its set is
\* gone; and no step removes a path outside the set.
C18_ExistingPathsOnly ==
    /\ [](\A b \in batches :
            /\ (b.pc = "remove" /\ b.next = 1) => Range(b.files) \subseteq fs
            /\ (b.pc = "returned" /\ b.msg = ErrText("delete")) => b.files[b.next] \in fs
            /\ b.pc = "index" => Range(b.files) \cap fs = {})
    /\ [][ \A b \in batches :
             (b.pc = "remove" /\ fs' # fs) => (fs \ fs') \subseteq Covered(b.files) ]_vars

\* C18 witness: session 1, whose todo file is there and whose debug log is
\* missing, has had every path of its set removed without an error.
C18_MissingSkipped ==
    \E b \in batches :
        /\ b.pc = "index"
        /\ b.uuid = 1
        /\ Todo(1) \in Range(b.files)
        /\ Debug(1) \notin Range(b.files)
        /\ Debug(1) \notin fs

\* C19: a step that removes a path of the session being deleted leaves
\* every path of the related-file set of every other session in place.
C19_NoInterference ==
    [][ \A b \in batches : \A y \in UUIDs \ {b.uuid} :
          (b.pc = "remove" /\ fs' # fs)
             => Range(findRelatedFiles(fs, content, y)) \subseteq fs' ]_vars

AgentsNamed(u) ==
    UNION {{content[<<p, u>>].lines[i].agent : i \in 1..Len(content[<<p, u>>].lines)} :
             p \in {q \in Projects : Jsonl(q, u) \in fs}}

MemoryKinds == {"memlocal", "memproj", "memuser"}

\* C21: the set a command resolves holds no project-scope and no user-scope
\* memory file, and a local-scope memory file only of an agent that a record
\* of the session's file names; no step removes a project-scope or
\* user-scope memory file, and a local-scope one only when it is in the set
\* of the session being deleted.
C21_LocalMemoryOnly ==
    [][ /\ \A b \in batches : \A c \in batches' :
              (b.pc = "range" /\ c.id = b.id /\ Len(c.started) > Len(b.started))
                 => \A q \in Range(c.files) :
                        q[1] \in MemoryKinds
                           => q[1] = "memlocal" /\ q[2] \in AgentsNamed(c.uuid)
        /\ \A q \in fs \ fs' :
              q[1] \in MemoryKinds
                 => q[1] = "memlocal" /\ \E b \in batches : q \in Range(b.files) ]_vars

\* C21 witness: a session that names agent 1 has had its paths removed, the
\* local-scope memory file among them, and the other scopes are in place.
C21_LocalRemoved ==
    \E b \in batches :
        /\ b.pc = "index"
        /\ MemLocal(1) \in Range(b.files)
        /\ MemLocal(1) \notin fs
        /\ MemProj(1) \in fs
        /\ MemUser(1) \in fs

\* The slugs a record of a file of session u names.
SlugsNamed(u) ==
    UNION {{content[<<p, u>>].lines[i].slug : i \in 1..Len(content[<<p, u>>].lines)} :
             p \in {q \in Projects : Jsonl(q, u) \in fs}}

\* Session u has one primary file and nothing else: no chat directory, no
\* plan of a slug it names, no debug log, no todo file <u>*.json, no
\* session-env, no file-history, no local memory of an agent it names.
Bare(u) ==
    /\ Cardinality({p \in Projects : Jsonl(p, u) \in fs}) = 1
    /\ \A p \in Projects : ChatDir(p, u) \notin fs /\ ToolRes(p, u) \notin fs
    /\ \A sl \in SlugsNamed(u) : Plan(sl) \notin fs
    /\ Debug(u) \notin fs
    /\ \A t \in FileIds : HasPrefix(Name(t), Name(u)) => Todo(t) \notin fs
    /\ SEnv(u) \notin fs
    /\ FHist(u) \notin fs
    /\ \A a \in AgentsNamed(u) : MemLocal(a) \notin fs

PrimaryOf(u) == Jsonl(CHOOSE p \in Projects : Jsonl(p, u) \in fs, u)

\* C22: for a session that has nothing beyond its primary file the resolver
\* returns exactly one path, the primary file; so does the resolution a
\* deletion command has just made.
C22_BareSessionOnePath ==
    /\ \A u \in UUIDs : Bare(u) => findRelatedFiles(fs, content, u) = <<PrimaryOf(u)>>
    /\ \A b \in batches :
          (b.pc = "remove" /\ b.next = 1 /\ Bare(b.uuid)) => b.files = <<PrimaryOf(b.uuid)>>

\* C22 witness: a command has resolved session 2, which has nothing beyond
\* its primary file, on a tree where another session owns a plan, a todo
\* file and a local memory file.
C22_BareResolved ==
    \E b \in batches :
        /\ b.pc = "remove" /\ b.next = 1
        /\ b.uuid = 2
        /\ Bare(2)
        /\ Len(b.files) = 1
        /\ {Plan(1), Todo(1), MemLocal(1)} \subseteq fs

\* The index update of command b returns nil in this step.
IndexDone(b) ==
    \E c \in batches' : c.id = b.id /\ c.pc = "range" /\ Len(c.completed) > Len(b.completed)

\* C23: whenever a command is about to update the manifests, the update can
\* return nil, whatever manifests do not parse; a step of the update leaves
\* every manifest that does not parse as it is, and when the update returns
\* nil no manifest that parses lists the session any more.
C23_CorruptManifestSkipped ==
    /\ [](\A b \in batches :
            (Running /\ b.pc = "index") => ENABLED (BatchIndex(b) /\ IndexDone(b)))
    /\ [][ \A b \in batches :
             (b.pc = "index" /\ \E c \in batches' : c.id = b.id /\ c.pc # "index")
                => /\ \A p \in Projects :
                         index[p].state = "corrupt" => index'[p] = index[p]
                   /\ IndexDone(b)
                         => \A p \in Projects :
                               index[p].state = "ok"
                                  => /\ index'[p].state = "ok"
                                     /\ b.uuid \notin Range(index'[p].entries) ]_vars

\* C23 witness: session 1 has been deleted with no failure on a tree whose
\* project 1 manifest does not parse; project 2's manifest, which listed the
\* session, has been rewritten without it.
C23_DeletedDespiteCorrupt ==
    \E b \in batches :
        /\ b.pc = "range"
        /\ b.completed # <<>>
        /\ b.completed[Len(b.completed)] = 1
        /\ index[1].state = "corrupt"
        /\ index[2].state = "ok"
        /\ index[2].entries = <<>>

\* C24: a step changes or writes a manifest only when the manifest parses
\* and lists the session whose index update is running; and for a session
\* whose index update has returned nil, updating the manifests once more
\* writes nothing.
C24_WriteOnlyOnRemoval ==
    /\ [](\A b \in batches : \A i \in 1..Len(b.completed) :
            IndexUpdated(index, b.completed[i], NumProj) = index)
    /\ [][ \A p \in Projects :
             index'[p] # index[p]
                => /\ index[p].state = "ok"
                   /\ \E b \in batches :
                         b.pc = "index" /\ b.uuid \in Range(index[p].entries) ]_vars

\* C24 witness: session 2 has been deleted; project 1's manifest, which
\* listed it, has been written once, and project 2's, which parses and
\* lists another session only, never.
C24_OneManifestWritten ==
    \E b \in batches :
        /\ b.completed = <<2>>
        /\ b.pc = "range"
        /\ index[1].state = "ok" /\ index[1].writes = 1
        /\ index[2].state = "ok" /\ index[2].entries = <<1>> /\ index[2].writes = 0

\* The position in e of the k-th entry that is not u, and the entries of e
\* that are not u in the order they have in e.
KthKept(e, u, k) ==
    CHOOSE i \in 1..Len(e) :
        e[i] # u /\ Cardinality({j \in 1..i : e[j] # u}) = k

Kept(e, u) ==
    [k \in 1..Cardinality({i \in 1..Len(e) : e[i] # u}) |-> e[KthKept(e, u, k)]]

SameButEntries(old, new, u) ==
    /\ new.state = "ok"
    /\ new.entries = Kept(old.entries, u)
    /\ new.version = old.version
    /\ new.originalPath = old.originalPath

\* C25: when the index update of a session returns nil, every manifest that
\* parses holds exactly its former entries of the other sessions, in their
\* former order, with the same version and originalPath; and a manifest an
\* update has rewritten, whether or not the update went on to fail, holds
\* exactly that.
C25_ExactlyTheSessionsEntries ==
    [][ \A b \in batches :
          (b.pc = "index" /\ \E c \in batches' : c.id = b.id /\ c.pc # "index")
             => \A p \in Projects :
                   /\ (IndexDone(b) /\ index[p].state = "ok")
                         => SameButEntries(index[p], index'[p], b.uuid)
                   /\ (index'[p] # index[p] /\ index'[p].state = "ok")
                         => SameButEntries(index[p], index'[p], b.uuid) ]_vars

\* C25 witness: session 1 has been removed from a manifest that listed
\* session 2 before and after it: both entries of session 2 are left.
C25_OthersKept ==
    \E b \in batches :
        /\ b.completed = <<1>>
        /\ b.pc = "range"
        /\ index[1].state = "ok"
        /\ index[1].entries = <<2, 2>>

\* A list holds no session named agent-..., and exactly one session for
\* every other *.jsonl file of a project directory, and nothing else.
ScanOk(list) ==
    /\ \A i \in 1..Len(list) : ~HasPrefix(Name(list[i].UUID), AgentPrefix)
    /\ \A p \in Projects : \A u \in FileIds :
          (Jsonl(p, u) \in fs /\ ~HasPrefix(Name(u), AgentPrefix))
             => Cardinality({i \in 1..Len(list) :
                               list[i].UUID = u /\ list[i].Project = p}) = 1
    /\ \A i \in 1..Len(list) : Jsonl(list[i].Project, list[i].UUID) \in fs

\* C26: a scan of the tree as it is returns no session whose name begins
\* with agent- and exactly one session for every other *.jsonl file of a
\* project directory; so does the list loaded after a completed deletion.
C26_NoAgentSessions ==
    /\ ScanOk(findAllChats(fs, content))
    /\ lastMsg = "deleteCompleteMsg" => ScanOk(chats)

\* C26 witness: the list has been reloaded on a tree that holds an agent-
\* file and the file of session 1 in two projects: it shows two sessions,
\* both of them session 1.
C26_Rescanned ==
    /\ lastMsg = "deleteCompleteMsg"
    /\ Jsonl(1, -1) \in fs
    /\ Len(chats) = 2
    /\ chats[1].UUID = 1 /\ chats[2].UUID = 1

NonIncreasing(list) ==
    \A i \in 1..(Len(list) - 1) : list[i].Timestamp >= list[i + 1].Timestamp

FileOf(chat) == content[<<chat.Project, chat.UUID>>].lines

\* The lines of the scan window: line 1 and the ScanWindow lines after it.
Window(lines) ==
    SubSeq(lines, 1, IF Len(lines) < ScanWindow + 1 THEN Len(lines) ELSE ScanWindow + 1)

Least(S) == CHOOSE i \in S : \A j \in S : i <= j

\* The title the statement describes: of the lines 2.. of the window, the
\* cleaned content of the first that decodes, is of type user, is not meta
\* and cleans to a title; else the first non-empty summary of a summary
\* line of the window; else the sentinel.
ExpectedTitle(lines) ==
    LET w == Window(lines)
        users == {i \in 2..Len(w) :
                     /\ w[i].form # "bad"
                     /\ w[i].type = "user"
                     /\ ~w[i].isMeta
                     /\ cleanSystemTags(w[i].content) # <<>>}
        sums == {i \in 2..Len(w) :
                     w[i].form # "bad" /\ w[i].type = "summary" /\ w[i].summary # <<>>}
    IN IF users # {} THEN cleanSystemTags(w[Least(users)].content)
       ELSE IF sums # {} THEN w[Least(sums)].summary
       ELSE NoTitle

\* C28: the title of every session of the list is the cleaned content of
\* the first user, non-meta line of the scan window after line 1 that
\* cleans to a non-empty text not beginning with "<"; without one, the
\* summary of the first summary line of the window; otherwise the sentinel.
C28_TitleIsFirstQualifying ==
    \A i \in 1..Len(chats) : chats[i].Title = ExpectedTitle(FileOf(chats[i]))

\* C29: the title of every session of the list is the title of its file cut
\* after the scan window: no line after the window has a part in it.
C29_WindowBounded ==
    \A i \in 1..Len(chats) :
        chats[i].Title = TitleFrom(Scanned(Window(FileOf(chats[i]))))

\* C30: the version of every session of the list is the version field of
\* line 2 of its file, and empty when the file has no line 2 or line 2 does
\* not decode.
C30_VersionIsRecordTwo ==
    \A i \in 1..Len(chats) :
        LET lines == FileOf(chats[i])
        IN chats[i].Version =
              (IF Len(lines) >= 2 /\ lines[2].form # "bad" THEN lines[2].version ELSE "")

\* C31: a command whose range loop over the selection has produced no index
\* returns deleteCompleteMsg with count 0 and has changed no path and no
\* manifest; the step in which it returns changes nothing of the tree.
C31_EmptySelectionNoOp ==
    /\ [](\A b \in batches :
            (b.pc = "returned" /\ b.seen = {})
               => /\ b.msg = [type |-> "deleteCompleteMsg", count |-> 0]
                  /\ ~b.removed
                  /\ b.started = <<>>)
    /\ [][ \A b \in batches :
             (b.pc = "range" /\ b.todo = {} /\ b.seen = {}
                /\ \E c \in batches' : c.id = b.id /\ c.pc = "returned")
                => UNCHANGED fsVars ]_vars

\* C31 witness: a command has returned without having found an index in the
\* selection (it was emptied before the loop began), and every session file
\* is in place.
C31_ReturnedEmpty ==
    \E b \in batches :
        /\ b.pc = "returned"
        /\ b.seen = {}
        /\ b.msg.type = "deleteCompleteMsg"
        /\ \A u \in UUIDs : Jsonl(1, u) \in fs

\* C32: the program ends (tea.Quit) only in a step that handles a key: no
\* reload that finds the list empty ends it.
C32_QuitOnlyByKey ==
    [][ (status = "running" /\ status' = "quit") => lastMsg' = "key" ]_vars

\* C34: when a command is about to remove the first path of a session, the
\* set it holds is the set the resolver gives on the tree as it is, plan and
\* agent memory included; the set does not change while its paths are
\* removed; a path is removed only by a command that is at the removals of
\* a session; and a manifest changes only when the command at its index
\* update has gone through every path of the set and none is left.
C34_ResolveRemoveIndex ==
    /\ [](\A b \in batches :
            (b.pc = "remove" /\ b.next = 1)
               => b.files = findRelatedFiles(fs, content, b.uuid))
    /\ [][ /\ \A b \in batches : \A c \in batches' :
                 (b.pc = "remove" /\ c.id = b.id) => c.files = b.files /\ c.uuid = b.uuid
           /\ fs' # fs => \E b \in batches : b.pc = "remove"
           /\ index' # index
                 => \E b \in batches :
                       /\ b.pc = "index"
                       /\ b.next = Len(b.files) + 1
                       /\ Range(b.files) \cap fs = {} ]_vars

\* C34 witness: the manifest of project 1 no longer lists session 1, whose
\* set held its primary file and the plan and the agent memory file its
\* records name; all of them are gone.
C34_IndexAfterRemovals ==
    \E b \in batches :
        /\ b.pc = "range"
        /\ b.uuid = 1
        /\ b.completed # <<>>
        /\ {Jsonl(1, 1), Plan(1), MemLocal(1)} \subseteq Range(b.files)
        /\ Range(b.files) \cap fs = {}
        /\ index[1].state = "ok" /\ 1 \notin Range(index[1].entries)

\* C35: the indices a running command deletes are those selected when enter
\* was pressed: no step adds an index to or takes one from what the command
\* has produced or has still to produce, and no step changes the selection
\* map a command is ranging over before and after the step.
C35_BatchSetFixed ==
    [][ /\ \A b \in batches : \A c \in batches' :
              c.id = b.id => (c.todo \cup c.seen) = (b.todo \cup b.seen)
        /\ (\E b \in batches' : Iterating(b) /\ \E c \in batches : c.id = b.id /\ Iterating(c))
              => selected' = selected ]_vars

\* C36: every selected index is an index of the list: at least 0 and less
\* than the length of the list.
C36_SelectionInRange == selected \subseteq 0..(Len(chats) - 1)

\* C37: the cursor is at least 0, less than the length of a list that is not
\* empty, and 0 on an empty list.
C37_CursorInRange ==
    /\ cursor >= 0
    /\ Len(chats) > 0 => cursor < Len(chats)
    /\ Len(chats) = 0 => cursor = 0

\* C38: the confirmation dialog is open only while the selection is not
\* empty, in every state, those after a completion or an error event
\* included; and a "d" pressed on an empty selection changes nothing.
C38_DialogNeedsSelection ==
    /\ [](confirmDelete => selected # {})
    /\ [][ (~confirmDelete /\ selected = {} /\ KeyMsg("d"))
              => UNCHANGED <<fsVars, ctlVars, ticks, batches, status, dispatched>> ]_vars

\* The dialog is still open, on a selection that is not empty, when the
\* error event of the command has been handled.
C38_OpenAfterError ==
    /\ confirmDelete
    /\ lastMsg = "errMsg"
    /\ selected # {}
    /\ ~deleting

\* C33: a config file with auto_updates false disables the automatic update
\* check: when the file main loaded has auto_updates false, whatever its
\* other fields, a start without --update performs no update check.
C33_AutoUpdatesOff ==
    \A c \in main.read :
        (~c.AutoUpdates /\ ~main.updateFlag) => main.checks = 0

\* C39: when downloadAndInstall has returned an error the path of the
\* executable holds the previous binary, and when it has returned no error
\* the path holds the new binary and the backup is gone.
C39_InstallSafe ==
    update.calls > 0 =>
        IF update.err # ""
        THEN update.files["exe"] = "old"
        ELSE update.files["exe"] = "new" /\ update.files["backup"] = "none"

====
